---- MODULE Spec2Model ----
(***************************************************************************)
(* Discovery-to-publish pipeline of youtube_trends:                        *)
(*   database.py     YouTubeDatabase  (the Firestore catalog)              *)
(*   web_scraper.py  YouTubeScraper   (search, download, submit, run loop) *)
(***************************************************************************)
EXTENDS Integers, Sequences, FiniteSets, TLC

(***************************************************************************)
(* Bounds of the model.                                                    *)
(***************************************************************************)
MaxUrl == 2          \* distinct video URLs the search pages can show
MaxTitle == 2        \* distinct titles a video element can carry
MaxClock == 3        \* calls of datetime.now() in one behaviour
MaxRetries == 6      \* largest max_retries a direct call of _download_video passes
MaxSegments == 4     \* colon-separated segments of a duration text

UrlIds == 1..MaxUrl
TitleIds == 1..MaxTitle

(***************************************************************************)
(* Values.                                                                 *)
(***************************************************************************)
None == <<>>                         \* Python None
Some(x) == <<x>>                     \* a present value (a timestamp)

WatchUrl(i) == <<"watch?v=", i>>     \* https://www.youtube.com/watch?v=<i>
URLs == {WatchUrl(i) : i \in UrlIds}
Titles == {<<"title", t>> : t \in TitleIds}

\* dict.get(key, default)
Get(d, key, default) == IF key \in DOMAIN d THEN d[key] ELSE default

(***************************************************************************)
(* database.py                                                             *)
(***************************************************************************)
\* A digest with a collision, as a shortened or constant document id would be.
get_document_id_collide(url) == <<"md5", 1>>

\* md5(url).hexdigest(): one digest per URL.
get_document_id(url) == <<"md5", (url[2] * 5 + 3) % 11>>

\* A doc_data that stamps upload_date when the document is stored.
doc_data_published(video_data, now) ==
    [url |-> video_data["url"],
     title |-> video_data["title"],
     language |-> video_data["language"],
     categories |-> video_data["categories"],
     length |-> video_data["length"],
     upload_date |-> Some(now),
     thumbnail_url |-> Get(video_data, "thumbnail_url", "Unknown"),
     is_shorts |-> Get(video_data, "is_shorts", FALSE),
     created_at |-> now]

\* doc_data of add_video.
doc_data(video_data, now) ==
    [url |-> video_data["url"],
     title |-> video_data["title"],
     language |-> video_data["language"],
     categories |-> video_data["categories"],
     length |-> video_data["length"],
     upload_date |-> Get(video_data, "upload_date", None),
     thumbnail_url |-> Get(video_data, "thumbnail_url", "Unknown"),
     is_shorts |-> Get(video_data, "is_shorts", FALSE),
     created_at |-> now]

\* collection.document(doc_id).set(data): create or replace the document.
DocSet(coll, id, data) ==
    [d \in (DOMAIN coll) \cup {id} |-> IF d = id THEN data ELSE coll[d]]

\* The collection after add_video(video_data) at time now.
add_video(coll, video_data, now) ==
    DocSet(coll, get_document_id(video_data["url"]), doc_data(video_data, now))

\* doc_ref.update({...}) raises NotFound when the document is absent.
UpdateRaisesNotFound(coll, url) == get_document_id(url) \notin DOMAIN coll

\* An except clause that logs the error and returns.
update_swallows == FALSE

\* The except clause of update_video_upload_date logs the error and re-raises it.
update_reraises == TRUE

\* The collection after update_video_upload_date(url) at time now (document present).
update_video_upload_date(coll, url, now) ==
    LET id == get_document_id(url)
    IN  [coll EXCEPT ![id] = [@ EXCEPT !.upload_date = Some(now)]]

\* The where() filters of the per-partition query.
QueryMatch(coll, language, category) ==
    {d \in DOMAIN coll :
        /\ coll[d].upload_date = None
        /\ coll[d].is_shorts = FALSE
        /\ coll[d].language = language
        /\ coll[d].categories = category}

\* order_by('created_at').limit(1): ties are broken by document name.
DocBefore(coll, a, b) ==
    \/ coll[a].created_at < coll[b].created_at
    \/ /\ coll[a].created_at = coll[b].created_at
       /\ a[2] <= b[2]

QueryFirst(coll, language, category) ==
    LET m == QueryMatch(coll, language, category)
    IN  IF m = {} THEN <<>>
        ELSE LET d == CHOOSE x \in m : \A y \in m : DocBefore(coll, x, y)
             IN  <<coll[d] @@ [id |-> d]>>

\* get_pending_videos_by_category_language: one query per combination, in order.
RECURSIVE get_pending_videos_by_category_language(_, _)
get_pending_videos_by_category_language(coll, combos) ==
    IF combos = <<>> THEN <<>>
    ELSE QueryFirst(coll, Head(combos)[1], Head(combos)[2])
         \o get_pending_videos_by_category_language(coll, Tail(combos))

(***************************************************************************)
(* web_scraper.py: _convert_time_to_seconds                                *)
(***************************************************************************)
Digits == <<"0", "1", "2", "3", "4", "5", "6", "7", "8", "9">>
IsDigit(c) == \E i \in 1..10 : Digits[i] = c
DigitVal(c) == (CHOOSE i \in 1..10 : Digits[i] = c) - 1

\* time_str.split(':'): the segments between the colons.
RECURSIVE SplitColon(_, _)
SplitColon(s, acc) ==
    IF s = <<>> THEN <<acc>>
    ELSE IF Head(s) = ":" THEN <<acc>> \o SplitColon(Tail(s), <<>>)
    ELSE SplitColon(Tail(s), Append(acc, Head(s)))

\* str.strip() (and the blanks int() ignores): blanks at both ends removed.
RECURSIVE lstrip(_)
lstrip(s) == IF s # <<>> /\ Head(s) = " " THEN lstrip(Tail(s)) ELSE s

RECURSIVE rstrip(_)
rstrip(s) == IF s # <<>> /\ s[Len(s)] = " " THEN rstrip(SubSeq(s, 1, Len(s) - 1)) ELSE s

strip(s) == rstrip(lstrip(s))

\* int(part) raises ValueError on an empty or non-numeric segment.
IntRaises(part) ==
    LET p == strip(part)
    IN  p = <<>> \/ \E i \in 1..Len(p) : ~IsDigit(p[i])

RECURSIVE IntOf(_, _)
IntOf(part, acc) ==
    IF part = <<>> THEN acc ELSE IntOf(Tail(part), acc * 10 + DigitVal(Head(part)))

\* A conversion that reads the first digit only.
int_first_digit(part) == DigitVal(Head(strip(part)))

\* int(part) of a segment that does not raise.
int(part) == IntOf(strip(part), 0)

convert_time_to_seconds(time_str) ==
    LET cleaned_time == strip(time_str)
        parts == SplitColon(cleaned_time, <<>>)
    IN  IF Len(parts) = 2
        THEN IF IntRaises(parts[1]) \/ IntRaises(parts[2]) THEN 0
             ELSE int(parts[1]) * 60 + int(parts[2])
        ELSE IF Len(parts) = 3
        THEN IF IntRaises(parts[1]) \/ IntRaises(parts[2]) \/ IntRaises(parts[3]) THEN 0
             ELSE int(parts[1]) * 3600 + int(parts[2]) * 60 + int(parts[3])
        ELSE 0

\* Segments of the duration texts a direct call is given: digits, empty,
\* letters, digits with a letter, digits after a blank.
Segments ==
    {<<>>, <<"0">>, <<"1">>, <<"0", "5">>, <<"0", "2">>, <<"0", "3">>, <<"5", "9">>,
     <<"a", "b", "c">>, <<"1", "a">>, <<" ", "5">>}

SegmentLists == UNION {[1..n -> Segments] : n \in 1..MaxSegments}

\* ":".join(segs)
RECURSIVE Join(_)
Join(segs) ==
    IF Len(segs) = 1 THEN segs[1] ELSE segs[1] \o <<":">> \o Join(Tail(segs))

(***************************************************************************)
(* web_scraper.py: configuration, files, download, submission              *)
(***************************************************************************)
\* (language, categories) of the url_data entries the config files define.
ConfigEntries == {<<1, 1>>, <<1, 2>>, <<2, 0>>}

\* _get_language_category_combinations: "if language and category" keeps
\* only the pairs whose two values are truthy.
get_language_category_combinations ==
    {e \in ConfigEntries : e[1] # 0 /\ e[2] # 0}

\* list(combinations): the set in some iteration order.
ListsOf(S) ==
    {q \in [1..Cardinality(S) -> S] : \A x \in S : \E i \in 1..Cardinality(S) : q[i] = x}

\* What the result pages show of the video element of URL u: the thumbnail
\* reference and the duration text.  Video 1 is shown with or without a
\* thumbnail, video 2 with the duration text "1:05" or "a:b".
PageElements(u) ==
    {[thumbnail_url |-> "img", text |-> <<"1", ":", "0", "5">>]}
    \cup (IF u[2] = 1
          THEN {[thumbnail_url |-> "Unknown", text |-> <<"1", ":", "0", "5">>]} ELSE {})
    \cup (IF u[2] = 2
          THEN {[thumbnail_url |-> "img", text |-> <<"a", ":", "b">>]} ELSE {})

\* The title the result pages show for a video.
PageTitle(u) == <<"title", 1>>

\* video_id = url.split('v=')[-1]
VideoId(url) == <<"id", url[2]>>

\* f"{base}.{ext}" in the working directory.
File(base, ext) == <<base[1], base[2], ext>>

\* sanitize_filename: the titles of the model hold none of the replaced characters.
sanitize_filename(title) == title

max_retries == 3

\* One pass of the while loop of _download_video, as the world answers it:
\*   first   extract_info(url): "ok", or raises "bot" (sign-in / bot check) or "other"
\*   second  the fallback extract_info after a raise, same outcomes
\*   info    "ok", "none" (no info) or "notitle"
\*   wrote   the extension of the file yt-dlp left on disk, or "none"
\*   rename  whether os.rename succeeds
\*   title   info['title']
Attempts ==
    [first : {"ok", "bot", "other"}, second : {"ok", "bot", "other"},
     info : {"ok", "none", "notitle"}, wrote : {"none", "mp4", "webm"},
     rename : BOOLEAN, title : Titles]

\* One attempt for each way a pass can go: the fields a pass does not read
\* (the fallback after a first fetch that worked, info after a fetch that
\* raised, the rename and the title of a pass that fails) are held fixed.
DistinctAttempts ==
    {a \in Attempts :
        /\ a.first = "ok" => a.second = "ok"
        /\ ~(a.first = "ok" \/ a.second = "ok") => a.info = "ok"
        /\ ~(/\ a.first = "ok" \/ a.second = "ok"
             /\ a.info = "ok"
             /\ a.wrote = "mp4") => a.rename /\ a.title = <<"title", 1>>
        /\ ~a.rename => a.title = <<"title", 1>>}

\* The attempts the pipeline specification draws from.
PipelineAttempts ==
    {a \in Attempts :
        /\ a.second = "other" /\ a.info = "ok" /\ a.title = <<"title", 1>>
        /\ a.rename
        /\ \/ a.first = "ok" /\ a.wrote = "mp4"
           \/ a.first = "other" /\ a.wrote = "none"}

\* The paths _setup_authentication tests with os.path.exists:
\* /app/youtube_cookies.txt, /app/.netrc, /root/.config/google-chrome.
AuthPaths == {"cookie_file", "netrc", "chrome"}

\* The authentication paths that exist where the pipeline runs.
PipelineAuthPaths == {"cookie_file"}

\* ydl_opts as _download_video builds it, before _setup_authentication:
\* the three authentication keys absent, extractor_args['youtube'] and the
\* sleep / retries / header settings as in the literal.
BaseOpts ==
    [cookiefile |-> FALSE, netrc |-> FALSE, cookiesfrombrowser |-> FALSE,
     extractor |-> "base", settings |-> "base"]

\* _add_no_auth_fallback: extractor_args['youtube'], the sleep and retries
\* settings and the headers are overwritten with the no-auth profile.
add_no_auth_fallback(ydl_opts) ==
    [ydl_opts EXCEPT !.extractor = "no_auth", !.settings = "no_auth"]

\* A setup that looks for the .netrc file before the cookie file.
setup_authentication_netrc_first(exists) ==
    IF "netrc" \in exists
    THEN [ydl_opts |-> [BaseOpts EXCEPT !.netrc = TRUE], method |-> "netrc"]
    ELSE IF "cookie_file" \in exists
    THEN [ydl_opts |-> [BaseOpts EXCEPT !.cookiefile = TRUE], method |-> "cookie_file"]
    ELSE IF "chrome" \in exists
    THEN [ydl_opts |-> [BaseOpts EXCEPT !.cookiesfrombrowser = TRUE],
          method |-> "browser_cookies"]
    ELSE [ydl_opts |-> add_no_auth_fallback(BaseOpts), method |-> "no_auth_fallback"]

\* _setup_authentication(ydl_opts): the options it leaves and the string it returns.
setup_authentication(exists) ==
    IF "cookie_file" \in exists
    THEN [ydl_opts |-> [BaseOpts EXCEPT !.cookiefile = TRUE], method |-> "cookie_file"]
    ELSE IF "netrc" \in exists
    THEN [ydl_opts |-> [BaseOpts EXCEPT !.netrc = TRUE], method |-> "netrc"]
    ELSE IF "chrome" \in exists
    THEN [ydl_opts |-> [BaseOpts EXCEPT !.cookiesfrombrowser = TRUE],
          method |-> "browser_cookies"]
    ELSE [ydl_opts |-> add_no_auth_fallback(BaseOpts), method |-> "no_auth_fallback"]

\* "sign in to confirm" in error_msg or "bot" in error_msg
IsBotError(error) == error = "bot"

\* The inner except clause after a bot error: alt_opts is a shallow copy, so
\* the update of alt_opts['extractor_args']['youtube'] also changes the
\* dictionary ydl_opts refers to.
alt_client(ydl_opts) == [ydl_opts EXCEPT !.extractor = "alt"]

\* The outer except clause with attempts left: the cookie file is dropped and
\* the no-auth profile applied when the failure is a bot error, it is the
\* first failure (retry_count == 1) and 'cookiefile' is in ydl_opts.
retry_opts(ydl_opts, error, retry_count) ==
    IF IsBotError(error) /\ retry_count = 1 /\ ydl_opts.cookiefile
    THEN add_no_auth_fallback([ydl_opts EXCEPT !.cookiefile = FALSE])
    ELSE ydl_opts

\* A download that names the title-based path whether or not the rename worked.
returned_path_final(rename_ok, temp_path, final_path) == final_path

\* The path _download_video returns: final_path after os.rename, temp_path
\* when os.rename raised.
returned_path(rename_ok, temp_path, final_path) ==
    IF rename_ok THEN final_path ELSE temp_path

\* Whether the fetches of the attempt end without an exception.
FetchOk(a) == a.first = "ok" \/ a.second = "ok"

\* Three fetches in a pass, as a fallback that is retried once would make.
FetchCountThree(a) == IF a.first = "ok" THEN 1 ELSE 3

\* Calls of extract_info(..., download=True) in one pass of the while loop:
\* the first one, and the fallback in its except clause when it raised.
FetchCount(a) == IF a.first = "ok" THEN 1 ELSE 2

\* A loop that sleeps after every failure, the last one included.
WaitsAfterEveryFailure(retry_count, max) == TRUE

\* "if retry_count < max_retries": the branch that sleeps; the else branch raises.
WaitsBeforeRetry(retry_count, max) == retry_count < max

min(a, b) == IF a <= b THEN a ELSE b

\* A backoff without the cap.
wait_time_uncapped(retry_count) == 2 ^ retry_count

\* wait_time = min(2 ** retry_count, 30), retry_count being the number of
\* failed passes so far.
wait_time(retry_count) == min(2 ^ retry_count, 30)

\* Answers of requests.post: an exception, or a response with a status code.
PostOutcomes ==
    {[raised |-> TRUE, status |-> 0]}
    \cup {[raised |-> FALSE, status |-> c] : c \in {200, 201, 500}}

\* A check that takes every 2xx answer for success.
ResponseAccepted2xx(status) == status \in 200..299

\* response.status_code == 200
ResponseAccepted(status) == status = 200

\* A submission that does not need the thumbnail file.
FormSentWithoutThumbnail(resized, has_api_url) == has_api_url

\* requests.post is reached when open() of the media file and of the thumbnail
\* path succeeded (_resize_thumbnail returns the URL, not a file, when it
\* failed) and JUSTJACKPOT_API_URL is set.
FormSent(resized, has_api_url) == resized /\ has_api_url

\* An exception that leaves process_pending_videos.
AfterExceptionPropagated == "raised"

\* The position after an exception raised in the try block of
\* process_pending_videos: "except Exception" logs it, the finally block
\* logs the summary and closes, and the method returns.
AfterException == "exit"

\* The names bound in submit_to_justjackpot when the finally block runs.
SubmitLocals(downloaded, resized, opened) ==
    {"self", "video_data", "language", "category"}
    \cup (IF downloaded THEN {"video_path"} ELSE {})
    \cup (IF resized THEN {"thumbnail_path", "length_str", "form_data"} ELSE {})
    \cup (IF opened THEN {"files", "api_url"} ELSE {})

\* The finally block of submit_to_justjackpot.
cleanup_files(fs, locals, video_path, thumbnail_path) ==
    fs \ ((IF "video" \in locals THEN video_path ELSE {})
          \cup (IF "image" \in locals THEN thumbnail_path ELSE {}))

(***************************************************************************)
(* State.                                                                  *)
(***************************************************************************)
VARIABLES
    docs,              \* the Firestore collection: document id -> document
    clock,             \* datetime.now()
    files,             \* files in the working directory
    accepted,          \* downstream API: submissions answered 200, per URL
    api_url,           \* whether JUSTJACKPOT_API_URL is set
    first_seen,        \* history: time of the first add_video of each URL
    last_title,        \* history: title of the latest add_video of each URL
    pc,                \* position of the process in main / process_pending_videos
    videos,            \* process_pending_videos: the selected work list
    idx,               \* process_pending_videos: position in the work list
    videos_processed,  \* process_pending_videos: counter
    sub,               \* submit_to_justjackpot: video_data and local paths
    dl,                \* _download_video: ydl_opts, retry_count, last_error
    ret,               \* outcome of the submit_to_justjackpot call that returned last
    dbres,             \* outcome of the last direct call of a YouTubeDatabase method
    log,               \* what process_pending_videos has logged in this run
    conv               \* a direct call of _convert_time_to_seconds: text and result

vars == <<docs, clock, files, accepted, api_url, first_seen, last_title, pc,
          videos, idx, videos_processed, sub, dl, ret, dbres, log, conv>>

NoSub == [url |-> None, thumbnail_url |-> "Unknown", video_path |-> {}, thumbnail_path |-> {}]
\* No call of _download_video in progress.
\*   exists: the authentication paths that exist; auth_method: the string
\*   _setup_authentication returned; bot_failed: whether a failed pass that
\*   left attempts was a bot error; waits: the sleeps; fetches: the calls of
\*   extract_info.
NoDl == [max_retries |-> max_retries, exists |-> {}, ydl_opts |-> BaseOpts,
         auth_method |-> "none", retry_count |-> 0, last_error |-> "none",
         bot_failed |-> FALSE, waits |-> <<>>, fetches |-> 0]

\* _download_video(url, max_retries) up to the while loop: ydl_opts,
\* _setup_authentication, retry_count = 0, last_error = None.
download_entry(exists, m) ==
    [NoDl EXCEPT !.max_retries = m, !.exists = exists,
                 !.ydl_opts = setup_authentication(exists).ydl_opts,
                 !.auth_method = setup_authentication(exists).method]
NoRet == [url |-> None, sent |-> FALSE, status |-> 0, update_raised |-> FALSE, result |-> FALSE]
NoDbres == [op |-> "none", url |-> None, raised |-> FALSE, before |-> None,
            combos |-> <<>>, result |-> <<>>]
\* selected: "Processing N videos"; attempted: calls of submit_to_justjackpot;
\* api_url_missing: "JUSTJACKPOT_API_URL environment variable is not set";
\* summary: "Finished processing. Total videos uploaded: N";
\* downloaded: "Downloaded video to: <path>", with the candidate's URL;
\* driver_quits: calls of driver.quit() in close().
NoLog == [selected |-> 0, attempted |-> 0, api_url_missing |-> FALSE, summary |-> None,
          downloaded |-> {}, driver_quits |-> 0]

\* The finally block of process_pending_videos: the summary, then close().
finally_block(l, count) ==
    [l EXCEPT !.summary = Some(count), !.driver_quits = @ + 1]
NoConv == [segs |-> <<>>, time_str |-> <<>>, seconds |-> None]

Init ==
    /\ docs = <<>>
    /\ clock = 0
    /\ files = {}
    /\ accepted = [u \in URLs |-> 0]
    /\ api_url \in BOOLEAN
    /\ first_seen = [u \in URLs |-> None]
    /\ last_title = [u \in URLs |-> None]
    /\ pc = "search"
    /\ videos = <<>>
    /\ idx = 0
    /\ videos_processed = 0
    /\ sub = NoSub
    /\ dl = NoDl
    /\ ret = NoRet
    /\ dbres = NoDbres
    /\ log = NoLog
    /\ conv = NoConv

\* video_info as search builds it for the video element el of URL u under
\* the config entry part.
video_info(u, el, part) ==
    [title |-> PageTitle(u), url |-> u, thumbnail_url |-> el.thumbnail_url,
     language |-> part[1], categories |-> part[2],
     length |-> convert_time_to_seconds(el.text),
     metadata |-> "metadata"]

(***************************************************************************)
(* main: the discovery loop.  search() handles one video element of a      *)
(* result page of the config entry part and stores it with add_video.      *)
(***************************************************************************)
Search(u, el, part) ==
    /\ pc = "search"
    /\ clock < MaxClock
    /\ LET t == PageTitle(u)
       IN  /\ clock' = clock + 1
           /\ docs' = add_video(docs, video_info(u, el, part), clock')
           /\ first_seen' = [first_seen EXCEPT ![u] = IF @ = None THEN Some(clock') ELSE @]
           /\ last_title' = [last_title EXCEPT ![u] = Some(t)]
    /\ UNCHANGED <<files, accepted, api_url, pc, videos, idx, videos_processed,
                   sub, dl, ret, dbres, log, conv>>

(***************************************************************************)
(* process_pending_videos up to the for loop: the combinations, the        *)
(* selection, and the early returns (whose finally block closes).          *)
(***************************************************************************)
StartProcessing(order) ==
    /\ pc = "search"
    /\ LET selected == get_pending_videos_by_category_language(docs, order)
       IN  IF order = <<>> \/ selected = <<>>
              THEN /\ pc' = "exit" /\ idx' = 0 /\ videos' = <<>>
                   /\ log' = finally_block(NoLog, 0)
              ELSE /\ pc' = "loop" /\ idx' = 1 /\ videos' = selected
                   /\ log' = [NoLog EXCEPT !.selected = Len(selected)]
    /\ videos_processed' = 0
    /\ UNCHANGED <<docs, clock, files, accepted, api_url, first_seen, last_title,
                   sub, dl, ret, dbres, conv>>

(***************************************************************************)
(* The head of the for loop: driver.get(video['url']), video_data, and the *)
(* entry of submit_to_justjackpot into _download_video.                    *)
(***************************************************************************)
ProcessCandidate(page_ok) ==
    /\ pc = "loop"
    /\ IF page_ok
       THEN /\ pc' = "download"
            /\ sub' = [url |-> videos[idx].url,
                       thumbnail_url |-> videos[idx].thumbnail_url,
                       video_path |-> {}, thumbnail_path |-> {}]
            /\ dl' = download_entry(PipelineAuthPaths, max_retries)
            /\ log' = [log EXCEPT !.attempted = @ + 1]
            /\ UNCHANGED <<videos, idx>>
       ELSE \* driver.get raised: out of the for loop, into the handler
            /\ pc' = AfterException
            /\ videos' = <<>>
            /\ idx' = 0
            /\ log' = finally_block(log, videos_processed)
            /\ UNCHANGED <<sub, dl>>
    /\ UNCHANGED <<docs, clock, files, accepted, api_url, first_seen, last_title,
                   videos_processed, ret, dbres, conv>>

(***************************************************************************)
(* One pass of the while loop of _download_video.                          *)
(***************************************************************************)
DownloadAttempt(a) ==
    /\ pc = "download"
    /\ LET id == VideoId(sub.url)
           temp_path == File(id, "mp4")
           written == files \cup (IF a.wrote = "none" THEN {} ELSE {File(id, a.wrote)})
           final_path == File(sanitize_filename(a.title), "mp4")
           succeeded == FetchOk(a) /\ a.info = "ok" /\ temp_path \in written
           \* the exception of the fallback fetch, or one of the three checks
           error == IF FetchOk(a) THEN "other" ELSE a.second
           opts == IF IsBotError(a.first) THEN alt_client(dl.ydl_opts) ELSE dl.ydl_opts
           retry_count == dl.retry_count + 1
           fetches == dl.fetches + FetchCount(a)
       IN  IF succeeded
           THEN /\ files' = IF a.rename THEN (written \ {temp_path}) \cup {final_path}
                            ELSE written
                /\ sub' = [sub EXCEPT !.video_path =
                               {returned_path(a.rename, temp_path, final_path)}]
                /\ pc' = "publish"
                /\ dl' = [dl EXCEPT !.fetches = fetches, !.ydl_opts = opts]
                /\ log' = [log EXCEPT !.downloaded = @ \cup
                               {<<sub.url, returned_path(a.rename, temp_path, final_path)>>}]
                /\ UNCHANGED ret
           ELSE /\ dl' = [dl EXCEPT !.retry_count = retry_count,
                                    !.last_error = error,
                                    !.bot_failed = @ \/ (retry_count < dl.max_retries
                                                         /\ IsBotError(error)),
                                    !.ydl_opts = IF retry_count < dl.max_retries
                                                 THEN retry_opts(opts, error, retry_count)
                                                 ELSE opts,
                                    !.fetches = fetches,
                                    !.waits = IF WaitsBeforeRetry(retry_count, dl.max_retries)
                                              THEN Append(@, wait_time(retry_count))
                                              ELSE @]
                /\ log' = log
                /\ IF retry_count < dl.max_retries
                   THEN /\ files' = written \ {temp_path}
                        /\ pc' = "download"
                        /\ UNCHANGED <<sub, ret>>
                   ELSE \* raise last_error: caught in submit_to_justjackpot
                        /\ files' = cleanup_files(written \ {temp_path},
                                                  SubmitLocals(FALSE, FALSE, FALSE), {}, {})
                        /\ ret' = [url |-> sub.url, sent |-> FALSE, status |-> 0,
                                   update_raised |-> FALSE, result |-> FALSE]
                        /\ pc' = "returned"
                        /\ UNCHANGED sub
    /\ UNCHANGED <<docs, clock, accepted, api_url, first_seen, last_title,
                   videos, idx, videos_processed, dbres, conv>>

\* A pass of the loop in the pipeline specification, where a download works
\* at the first pass or fails at every pass; SpecDownload has every sequence
\* of passes.
PipelineDownloadAttempt(a) ==
    /\ pc = "download"
    /\ a.first = "ok" => dl.retry_count = 0
    /\ DownloadAttempt(a)

(***************************************************************************)
(* submit_to_justjackpot after _download_video returned: thumbnail, form,  *)
(* requests.post, update_video_upload_date, and the finally block.         *)
(*   thumb_ok   whether _resize_thumbnail saves the JPEG                   *)
(*   post       the answer of requests.post                                *)
(*   update_ok  whether Firestore carries out the update                   *)
(***************************************************************************)
Publish(thumb_ok, post, update_ok) ==
    /\ pc = "publish"
    /\ LET thumb == File(VideoId(sub.url), "jpg")
           has_thumb == sub.thumbnail_url # "Unknown"
           resized == has_thumb /\ thumb_ok
           thumbnail_path == IF resized THEN {thumb} ELSE {}
           saved == IF resized THEN files \cup {thumb} ELSE files
           \* open(thumbnail_path) raises when _resize_thumbnail returned the URL
           sent == FormSent(resized, api_url)
           responded == sent /\ ~post.raised
           success == responded /\ ResponseAccepted(post.status)
           update_raised == /\ success
                            /\ ~update_ok \/ UpdateRaisesNotFound(docs, sub.url)
                            /\ update_reraises
           result == success /\ ~update_raised
       IN  /\ success => clock < MaxClock
           /\ accepted' = IF responded /\ post.status = 200
                          THEN [accepted EXCEPT ![sub.url] = @ + 1] ELSE accepted
           /\ docs' = IF result THEN update_video_upload_date(docs, sub.url, clock + 1)
                      ELSE docs
           \* datetime.now() is evaluated before doc_ref.update is called
           /\ clock' = IF success THEN clock + 1 ELSE clock
           /\ files' = cleanup_files(saved, SubmitLocals(TRUE, has_thumb, resized),
                                     sub.video_path, thumbnail_path)
           /\ sub' = [sub EXCEPT !.thumbnail_path = thumbnail_path]
           /\ ret' = [url |-> sub.url, sent |-> sent,
                      status |-> IF responded THEN post.status ELSE 0,
                      update_raised |-> update_raised, result |-> result]
           /\ log' = [log EXCEPT !.api_url_missing = @ \/ (resized /\ ~api_url)]
    /\ pc' = "returned"
    /\ UNCHANGED <<api_url, first_seen, last_title, videos, idx, videos_processed,
                   dl, dbres, conv>>

(***************************************************************************)
(* The tail of the for loop: count the result, go on or finish; the        *)
(* finally block logs the summary and closes.                              *)
(***************************************************************************)
LoopNext ==
    /\ pc = "returned"
    /\ videos_processed' = IF ret.result THEN videos_processed + 1 ELSE videos_processed
    /\ IF idx < Len(videos)
       THEN idx' = idx + 1 /\ pc' = "loop" /\ videos' = videos /\ log' = log
       ELSE /\ idx' = 0 /\ pc' = "exit" /\ videos' = <<>>
            /\ log' = finally_block(log, videos_processed')
    /\ sub' = NoSub
    /\ dl' = NoDl
    /\ ret' = NoRet
    /\ UNCHANGED <<docs, clock, files, accepted, api_url, first_seen, last_title,
                   dbres, conv>>

\* The finally block of main after process_pending_videos: scraper.close().
MainClose ==
    /\ pc = "exit"
    /\ pc' = "done"
    /\ log' = [log EXCEPT !.driver_quits = @ + 1]
    /\ UNCHANGED <<docs, clock, files, accepted, api_url, first_seen, last_title,
                   videos, idx, videos_processed, sub, dl, ret, dbres, conv>>

\* The next invocation of main: a new process over the same catalog and directory.
NewRun ==
    /\ pc = "done"
    /\ pc' = "search"
    /\ videos_processed' = 0
    /\ log' = NoLog
    /\ UNCHANGED <<docs, clock, files, accepted, api_url, first_seen, last_title,
                   videos, idx, sub, dl, ret, dbres, conv>>

Next ==
    \/ \E u \in URLs, part \in ConfigEntries : \E el \in PageElements(u) : Search(u, el, part)
    \/ \E order \in ListsOf(get_language_category_combinations) : StartProcessing(order)
    \/ \E page_ok \in BOOLEAN : ProcessCandidate(page_ok)
    \/ \E a \in PipelineAttempts : PipelineDownloadAttempt(a)
    \/ \E thumb_ok \in BOOLEAN, post \in PostOutcomes, update_ok \in BOOLEAN :
          Publish(thumb_ok, post, update_ok)
    \/ LoopNext
    \/ MainClose
    \/ NewRun

Spec == Init /\ [][Next]_vars

(***************************************************************************)
(* The YouTubeDatabase methods called directly, with any arguments.        *)
(***************************************************************************)
DbVideoData ==
    [url : URLs, title : Titles, language : {1}, categories : {1, 2}, length : {0, 65}]

\* Lists of distinct partition keys.
DbCombos == {<<>>, <<<<1, 1>>, <<1, 2>>>>}

DbAddVideo(video_data) ==
    /\ clock < MaxClock
    /\ clock' = clock + 1
    /\ docs' = add_video(docs, video_data, clock')
    /\ first_seen' = [first_seen EXCEPT ![video_data.url] =
                          IF @ = None THEN Some(clock') ELSE @]
    /\ last_title' = [last_title EXCEPT ![video_data.url] = Some(video_data.title)]
    /\ dbres' = [NoDbres EXCEPT !.op = "add_video", !.url = video_data.url,
                                !.before = last_title[video_data.url]]
    /\ UNCHANGED <<files, accepted, api_url, pc, videos, idx, videos_processed,
                   sub, dl, ret, log, conv>>

DbUpdateVideoUploadDate(u) ==
    /\ clock < MaxClock
    /\ IF UpdateRaisesNotFound(docs, u)
       THEN /\ dbres' = [NoDbres EXCEPT !.op = "update_video_upload_date", !.url = u,
                                        !.raised = update_reraises]
            /\ UNCHANGED <<docs, clock>>
       ELSE /\ clock' = clock + 1
            /\ docs' = update_video_upload_date(docs, u, clock')
            /\ dbres' = [NoDbres EXCEPT !.op = "update_video_upload_date", !.url = u,
                                        !.before = docs[get_document_id(u)].upload_date]
    /\ UNCHANGED <<files, accepted, api_url, first_seen, last_title, pc, videos, idx,
                   videos_processed, sub, dl, ret, log, conv>>

DbGetPending(combos) ==
    /\ dbres' = [NoDbres EXCEPT !.op = "get_pending_videos_by_category_language",
                                !.combos = combos,
                                !.result = get_pending_videos_by_category_language(docs, combos)]
    /\ UNCHANGED <<docs, clock, files, accepted, api_url, first_seen, last_title, pc,
                   videos, idx, videos_processed, sub, dl, ret, log, conv>>

NextDb ==
    \/ \E video_data \in DbVideoData : DbAddVideo(video_data)
    \/ \E u \in URLs : DbUpdateVideoUploadDate(u)
    \/ \E combos \in DbCombos : DbGetPending(combos)

InitDb == Init /\ api_url

SpecDb == InitDb /\ [][NextDb]_vars

(***************************************************************************)
(* _download_video called directly: one call per behaviour, for any URL    *)
(* and any max_retries, every pass of the loop answered in any way.        *)
(***************************************************************************)
InitDownload ==
    /\ docs = <<>>
    /\ clock = 0
    /\ files = {}
    /\ accepted = [u \in URLs |-> 0]
    /\ api_url = TRUE
    /\ first_seen = [u \in URLs |-> None]
    /\ last_title = [u \in URLs |-> None]
    /\ pc = "call"
    /\ videos = <<>>
    /\ idx = 0
    /\ videos_processed = 0
    /\ sub \in {[NoSub EXCEPT !.url = u] : u \in URLs}
    /\ dl \in {[NoDl EXCEPT !.max_retries = m, !.exists = e] :
                    m \in 1..MaxRetries, e \in SUBSET AuthPaths}
    /\ ret = NoRet
    /\ dbres = NoDbres
    /\ log = NoLog
    /\ conv = NoConv

\* The call: _download_video up to the while loop.
DownloadEntry ==
    /\ pc = "call"
    /\ dl' = download_entry(dl.exists, dl.max_retries)
    /\ pc' = "download"
    /\ UNCHANGED <<docs, clock, files, accepted, api_url, first_seen, last_title,
                   videos, idx, videos_processed, sub, ret, dbres, log, conv>>

NextDownload ==
    \/ DownloadEntry
    \/ \E a \in DistinctAttempts : DownloadAttempt(a)

SpecDownload == InitDownload /\ [][NextDownload]_vars

\* The call is one sequential thread: the entry and every pass of the loop
\* (a fetch that returns or raises, then a finite sleep) are carried out.
SpecDownloadFair == SpecDownload /\ WF_vars(NextDownload)

(***************************************************************************)
(* _convert_time_to_seconds called directly on any duration text.          *)
(***************************************************************************)
InitConv ==
    /\ docs = <<>>
    /\ clock = 0
    /\ files = {}
    /\ accepted = [u \in URLs |-> 0]
    /\ api_url = TRUE
    /\ first_seen = [u \in URLs |-> None]
    /\ last_title = [u \in URLs |-> None]
    /\ pc = "search"
    /\ videos = <<>>
    /\ idx = 0
    /\ videos_processed = 0
    /\ sub = NoSub
    /\ dl = NoDl
    /\ ret = NoRet
    /\ dbres = NoDbres
    /\ log = NoLog
    /\ conv \in {[segs |-> q, time_str |-> Join(q), seconds |-> None] : q \in SegmentLists}

ConvertTimeToSeconds ==
    /\ conv.seconds = None
    /\ conv' = [conv EXCEPT !.seconds = Some(convert_time_to_seconds(conv.time_str))]
    /\ UNCHANGED <<docs, clock, files, accepted, api_url, first_seen, last_title, pc,
                   videos, idx, videos_processed, sub, dl, ret, dbres, log>>

NextConv == ConvertTimeToSeconds

SpecConv == InitConv /\ [][NextConv]_vars

(***************************************************************************)
(* Repeated runs of main over a catalog that discovery has filled before   *)
(* and does not change any more, every page load, download, thumbnail      *)
(* fetch, post and Firestore update working.                               *)
(***************************************************************************)
\* The collection after add_video of each element of infos in turn, the
\* first at time now.
RECURSIVE add_videos(_, _, _)
add_videos(coll, infos, now) ==
    IF infos = <<>> THEN coll
    ELSE add_videos(add_video(coll, Head(infos), now), Tail(infos), now + 1)

\* The video elements of URL u that carry a thumbnail.
ThumbnailElements(u) == {el \in PageElements(u) : el.thumbnail_url # "Unknown"}

\* The catalogs search leaves behind: the URLs of S stored in some order at
\* the times up to 0, each under a config entry, from an element with a
\* thumbnail.
Catalogs ==
    UNION {{add_videos(<<>>,
                       [i \in 1..Cardinality(S) |->
                            video_info(order[i], els[order[i]], parts[order[i]])],
                       1 - Cardinality(S)) :
               order \in ListsOf(S),
               parts \in [S -> ConfigEntries],
               els \in {f \in [S -> UNION {ThumbnailElements(u) : u \in S}] :
                           \A u \in S : f[u] \in ThumbnailElements(u)}} :
           S \in SUBSET URLs}

\* A pass of _download_video whose first fetch works.
SuccessAttempts == {a \in PipelineAttempts : a.first = "ok"}

\* requests.post answered 200.
Accepted200 == [raised |-> FALSE, status |-> 200]

InitRuns ==
    /\ docs \in Catalogs
    /\ clock = 0
    /\ files = {}
    /\ accepted = [u \in URLs |-> 0]
    /\ api_url = TRUE
    /\ first_seen = [u \in URLs |->
                        IF get_document_id(u) \in DOMAIN docs
                        THEN Some(docs[get_document_id(u)].created_at) ELSE None]
    /\ last_title = [u \in URLs |->
                        IF get_document_id(u) \in DOMAIN docs
                        THEN Some(PageTitle(u)) ELSE None]
    /\ pc = "search"
    /\ videos = <<>>
    /\ idx = 0
    /\ videos_processed = 0
    /\ sub = NoSub
    /\ dl = NoDl
    /\ ret = NoRet
    /\ dbres = NoDbres
    /\ log = NoLog
    /\ conv = NoConv

NextRuns ==
    \/ \E order \in ListsOf(get_language_category_combinations) : StartProcessing(order)
    \/ ProcessCandidate(TRUE)
    \/ \E a \in SuccessAttempts : DownloadAttempt(a)
    \/ Publish(TRUE, Accepted200, TRUE)
    \/ LoopNext
    \/ MainClose
    \/ NewRun

\* main always runs to its end, and it is run again and again.
SpecRuns == InitRuns /\ [][NextRuns]_vars /\ WF_vars(NextRuns)

(***************************************************************************)
(* Properties.                                                             *)
(***************************************************************************)
Published(u) ==
    /\ get_document_id(u) \in DOMAIN docs
    /\ docs[get_document_id(u)].upload_date # None

\* Rows of partition key k that are pending with a resolved duration.
Eligible(k) ==
    {d \in DOMAIN docs :
        /\ docs[d].upload_date = None
        /\ docs[d].length > 0
        /\ docs[d].language = k[1]
        /\ docs[d].categories = k[2]}

\* A segment made of decimal digits only.
AllDigits(seg) == seg # <<>> /\ \A i \in 1..Len(seg) : IsDigit(seg[i])

\* The number an all-digit segment of one or two digits denotes.
SegmentValue(seg) ==
    IF Len(seg) = 1 THEN DigitVal(seg[1]) ELSE DigitVal(seg[1]) * 10 + DigitVal(seg[2])

\* The no-auth fallback profile is in force in ydl_opts.
NoAuthProfile(ydl_opts) == ydl_opts.extractor = "no_auth" /\ ydl_opts.settings = "no_auth"

\* The strategies of _setup_authentication in priority order: the path
\* tested, the string returned, the key set in ydl_opts.
Strategies ==
    <<[path |-> "cookie_file", method |-> "cookie_file", key |-> "cookiefile"],
      [path |-> "netrc", method |-> "netrc", key |-> "netrc"],
      [path |-> "chrome", method |-> "browser_cookies", key |-> "cookiesfrombrowser"]>>

\* C1: when submit_to_justjackpot has returned, neither the media file that
\* _download_video returned nor the resized thumbnail of the candidate is in
\* the working directory.
C1_FilesRemovedOnReturn ==
    pc = "returned" => (sub.video_path \cup sub.thumbnail_path) \cap files = {}

\* C2: over all runs the downstream API answers 200 at most once per URL.
C2_AcceptedAtMostOnce ==
    \A u \in URLs : accepted[u] <= 1

\* C3: no step takes a document whose upload_date is set to one whose
\* upload_date is null.
C3_UploadDateNeverReset ==
    [][\A d \in DOMAIN docs :
          docs[d].upload_date # None =>
              d \in DOMAIN docs' /\ docs'[d].upload_date # None]_vars

\* C4: after any sequence of add_video calls the collection holds exactly one
\* document per URL that was added and none for the others, and that document
\* carries the title of the latest call for the URL.
C4_OneRowPerUrlLatestTitle ==
    \A u \in URLs :
        LET rows == {d \in DOMAIN docs : docs[d].url = u}
        IN  IF last_title[u] = None
            THEN rows = {}
            ELSE /\ Cardinality(rows) = 1
                 /\ \A d \in rows : Some(docs[d].title) = last_title[u]

\* C4 witness: add_video has just replaced the document of a URL that was
\* stored under another title.
C4_Witness ==
    /\ dbres.op = "add_video"
    /\ dbres.before # None
    /\ dbres.before # last_title[dbres.url]
    /\ Cardinality(DOMAIN docs) = 2

\* C5: the selection that process_pending_videos has just obtained holds one
\* candidate for each partition key that has an eligible candidate (pending,
\* duration > 0) and none for a key that has no eligible candidate.
C5_OnePerEligiblePartition ==
    (pc = "loop" /\ idx = 1) =>
        \A k \in get_language_category_combinations :
            Cardinality({i \in 1..Len(videos) :
                            videos[i].language = k[1] /\ videos[i].categories = k[2]})
                = IF Eligible(k) = {} THEN 0 ELSE 1

\* C6: every selected candidate has a null upload_date and a duration > 0.
C6_SelectedPendingWithDuration ==
    \A i \in 1..Len(videos) :
        videos[i].upload_date = None /\ videos[i].length > 0

\* C7: while nothing has been published (and every stored duration is
\* resolved), the candidate selected for a partition is the pending one of
\* that partition that was first discovered earliest.
C7_OldestFirstDiscovered ==
    (/\ pc = "loop" /\ idx = 1
     /\ \A u \in URLs : accepted[u] = 0
     /\ \A d \in DOMAIN docs : docs[d].upload_date = None /\ docs[d].length > 0) =>
        \A i \in 1..Len(videos) :
            \A d \in Eligible(<<videos[i].language, videos[i].categories>>) :
                first_seen[videos[i].url][1] <= first_seen[docs[d].url][1]

\* C8: update_video_upload_date on a URL whose upload_date is already set
\* raises nothing and leaves the stored upload_date as it was.
C8_MarkPublishedKeepsTimestamp ==
    (dbres.op = "update_video_upload_date" /\ dbres.before # None) =>
        /\ ~dbres.raised
        /\ docs[get_document_id(dbres.url)].upload_date = dbres.before

\* C9: when the downstream API answered 200, submit_to_justjackpot returns
\* True and the candidate's upload_date is set.
C9_AcceptedReturnsSuccess ==
    (pc = "returned" /\ ret.status = 200) =>
        ret.result /\ Published(ret.url)

\* C10: when requests.post raised or answered another status than 200,
\* submit_to_justjackpot returns False and the candidate's document is the
\* one that was selected, its upload_date still null.
C10_RejectedLeavesRowPending ==
    (pc = "returned" /\ ret.sent /\ ret.status # 200) =>
        /\ ~ret.result
        /\ get_document_id(ret.url) \in DOMAIN docs
        /\ docs[get_document_id(ret.url)] @@ [id |-> get_document_id(ret.url)] = videos[idx]
        /\ docs[get_document_id(ret.url)].upload_date = None

\* C10 witness: a submission was sent and not answered 200.
C10_Witness ==
    pc = "returned" /\ ret.sent /\ ret.status # 200

\* C11: when process_pending_videos has finished a run, submit_to_justjackpot
\* has been called for every candidate of the selected work list.
C11_EveryCandidateAttempted ==
    pc = "exit" => log.attempted = log.selected

\* C12: once the missing JUSTJACKPOT_API_URL has been detected in a run, no
\* candidate is being downloaded or submitted in that run.
C12_MissingApiUrlAbortsRun ==
    log.api_url_missing => pc \notin {"download", "publish"}

\* C13: in a call of _download_video with the default max_retries of 3 whose
\* passes all fail, the sleep after the first failure (before attempt 2) is
\* 2 seconds, the sleep after the second failure (before attempt 3) is 4
\* seconds, and the third failure raises without another sleep.
C13_DefaultBackoffTwoFour ==
    dl.max_retries = max_retries =>
        /\ Len(dl.waits) = min(dl.retry_count, 2)
        /\ dl.waits = SubSeq(<<2, 4>>, 1, Len(dl.waits))
        /\ (pc = "returned" => dl.retry_count = 3 /\ dl.waits = <<2, 4>>)

\* C13 witness: the default call has failed three times and raised.
C13_Witness ==
    /\ pc = "returned"
    /\ dl.max_retries = max_retries
    /\ dl.retry_count = 3
    /\ dl.waits = <<2, 4>>

\* C19: in one call of _download_video, extract_info(download=True) is
\* invoked at most max_retries times, fallbacks included.
C19_FetchesAtMostMaxRetries ==
    dl.fetches <= dl.max_retries

\* C19 amended: in one call of _download_video the while loop makes at most
\* max_retries passes, and extract_info(download=True) is invoked at most
\* twice per pass (the first fetch and one fallback), so at most
\* 2 * max_retries times.
C19_FetchesAtMostTwicePerPass ==
    /\ dl.retry_count <= dl.max_retries
    /\ dl.fetches <= 2 * dl.max_retries
    /\ dl.fetches <= 2 * (dl.retry_count + 1)
    /\ (pc = "download" => dl.fetches <= 2 * dl.retry_count)

\* C19 witness: every pass of a default call fetched twice and the call raised.
C19_Witness ==
    /\ pc = "returned"
    /\ dl.max_retries = max_retries
    /\ dl.fetches = 2 * max_retries

\* C20: the wait before attempt n, for n from 2 up to max_retries, is
\* min(2^n, 30) seconds.
C20_WaitBeforeAttemptN ==
    \A n \in 2..dl.max_retries :
        n - 1 <= Len(dl.waits) => dl.waits[n - 1] = min(2 ^ n, 30)

\* C20 amended: the wait before attempt n, for n from 2 up to max_retries, is
\* min(2^(n-1), 30) seconds: 2 to the number of failed passes, capped at 30.
C20_WaitBeforeAttemptNMinusOne ==
    /\ Len(dl.waits) = min(dl.retry_count, dl.max_retries - 1)
    /\ \A n \in 2..dl.max_retries :
           n - 1 <= Len(dl.waits) => dl.waits[n - 1] = min(2 ^ (n - 1), 30)

\* C20 witness: a call has waited before a sixth attempt, where the cap holds.
C20_Witness ==
    /\ Len(dl.waits) >= 5
    /\ dl.waits[4] = 16
    /\ dl.waits[5] = 30

\* C14: for a duration text of two all-digit segments the result is
\* minutes*60 + seconds, for three all-digit segments it is
\* hours*3600 + minutes*60 + seconds; "1:05" gives 65, "1:02:03" gives 3723.
C14_DigitSegmentsToSeconds ==
    conv.seconds # None =>
        LET segs == conv.segs
            digits == \A i \in 1..Len(segs) : AllDigits(segs[i])
        IN  /\ (Len(segs) = 2 /\ digits) =>
                   conv.seconds = Some(SegmentValue(segs[1]) * 60 + SegmentValue(segs[2]))
            /\ (Len(segs) = 3 /\ digits) =>
                   conv.seconds = Some(SegmentValue(segs[1]) * 3600
                                       + SegmentValue(segs[2]) * 60 + SegmentValue(segs[3]))
            /\ conv.time_str = <<"1", ":", "0", "5">> => conv.seconds = Some(65)
            /\ conv.time_str = <<"1", ":", "0", "2", ":", "0", "3">> =>
                   conv.seconds = Some(3723)

\* C14 witness: "1:02:03" has been converted to 3723.
C14_Witness ==
    /\ conv.time_str = <<"1", ":", "0", "2", ":", "0", "3">>
    /\ conv.seconds = Some(3723)

\* C15: for a duration text of another shape (one segment, more than three
\* segments, or a segment that is not all digits) the result is not 0.
C15_OtherShapesNotZero ==
    (/\ conv.seconds # None
     /\ \/ Len(conv.segs) \notin {2, 3}
        \/ \E i \in 1..Len(conv.segs) : ~AllDigits(conv.segs[i])) =>
        conv.seconds # Some(0)

\* C16: when submit_to_justjackpot has returned for a candidate whose
\* thumbnail reference is "Unknown" or whose thumbnail file was not produced,
\* no request was sent, the result is False and the candidate's document
\* still has a null upload_date.
C16_NoThumbnailNoSubmission ==
    (pc = "returned" /\ (sub.thumbnail_url = "Unknown" \/ sub.thumbnail_path = {})) =>
        /\ ~ret.sent
        /\ ret.status = 0
        /\ ~ret.result
        /\ get_document_id(ret.url) \in DOMAIN docs
        /\ docs[get_document_id(ret.url)].upload_date = None

\* C16 witness: the media file was downloaded, JUSTJACKPOT_API_URL is set,
\* the thumbnail reference is a URL, and _resize_thumbnail produced no file.
C16_Witness ==
    /\ pc = "returned"
    /\ api_url
    /\ sub.video_path # {}
    /\ sub.thumbnail_url # "Unknown"
    /\ sub.thumbnail_path = {}

\* C17: process_pending_videos never ends with an exception, and whenever it
\* has ended the summary has been logged with the count of published
\* candidates.
C17_RunEndsWithSummary ==
    /\ pc # "raised"
    /\ pc = "exit" => log.summary = Some(videos_processed)

\* C17 witness: a run of two candidates, both attempted, none published, has
\* ended with the summary 0.
C17_Witness ==
    /\ pc = "exit"
    /\ log.selected = 2
    /\ log.attempted = 2
    /\ videos_processed = 0
    /\ log.summary = Some(0)

\* C18: a call of update_video_upload_date for a URL that has no document
\* raises to the caller and leaves the collection as it was, without a
\* document for that URL.
C18_UpdateAbsentRaisesNotFound ==
    [][(/\ dbres'.op = "update_video_upload_date"
        /\ \A d \in DOMAIN docs : docs[d].url # dbres'.url) =>
           /\ dbres'.raised
           /\ docs' = docs
           /\ \A d \in DOMAIN docs' : docs'[d].url # dbres'.url]_vars

\* C18 witness: update_video_upload_date has raised for a URL that is absent
\* from a collection holding another document.
C18_Witness ==
    /\ dbres.op = "update_video_upload_date"
    /\ dbres.raised
    /\ docs # <<>>
    /\ \A d \in DOMAIN docs : docs[d].url # dbres.url

\* C21: the step in which a pass of _download_video fails with a bot error
\* for the first time while attempts remain leaves ydl_opts without
\* cookiefile and with the no-auth fallback profile, whatever the number of
\* the failed attempt.
C21_FirstBotFailureDropsCookies ==
    [][(pc = "download" /\ ~dl.bot_failed /\ dl'.bot_failed) =>
           /\ ~dl'.ydl_opts.cookiefile
           /\ NoAuthProfile(dl'.ydl_opts)]_vars

\* C22: after a failed pass of _download_video, before the next pass and
\* when the call has raised, no file named after the candidate's video id
\* is in the working directory, whatever its extension.
C22_NoMediaFileAfterFailedAttempt ==
    (pc \in {"download", "returned"} /\ dl.retry_count >= 1) =>
        \A ext \in {"mp4", "webm"} : File(VideoId(sub.url), ext) \notin files

\* C23: after _setup_authentication, the first strategy in the order cookie
\* file, .netrc, browser cookies whose path exists is the one returned and
\* the only one whose key is in ydl_opts, with the profile untouched; when
\* no path exists the call returns "no_auth_fallback" with no key set and
\* the no-auth fallback profile applied.
C23_FirstAvailableStrategy ==
    (pc = "download" /\ dl.retry_count = 0) =>
        LET avail == {i \in 1..3 : Strategies[i].path \in dl.exists}
            keys == {k \in {"cookiefile", "netrc", "cookiesfrombrowser"} : dl.ydl_opts[k]}
        IN  IF avail = {}
            THEN /\ dl.auth_method = "no_auth_fallback"
                 /\ keys = {}
                 /\ NoAuthProfile(dl.ydl_opts)
            ELSE LET i == CHOOSE j \in avail : \A k \in avail : j <= k
                 IN  /\ dl.auth_method = Strategies[i].method
                     /\ keys = {Strategies[i].key}
                     /\ dl.ydl_opts.extractor = "base"
                     /\ dl.ydl_opts.settings = "base"

\* C23 witness: .netrc and the Chrome profile exist, the cookie file does
\* not, and _setup_authentication has returned "netrc".
C23_Witness ==
    /\ pc = "download"
    /\ dl.retry_count = 0
    /\ dl.exists = {"netrc", "chrome"}
    /\ dl.auth_method = "netrc"

\* C28: a call of _download_video with max_retries >= 1 never makes more
\* than max_retries failed passes, and it ends: either it has returned a
\* path that names a file on disk, or it has raised the error of its last
\* failed pass after exactly max_retries failures.
C28_ReturnsFileOrRaises ==
    /\ [](/\ dl.retry_count <= dl.max_retries
          /\ pc = "download" => dl.retry_count < dl.max_retries
          /\ pc = "publish" => sub.video_path # {} /\ sub.video_path \subseteq files
          /\ pc = "returned" =>
                /\ dl.retry_count = dl.max_retries
                /\ dl.last_error \in {"bot", "other"}
                /\ sub.video_path = {}
                /\ ~ret.result)
    /\ <>(pc \in {"publish", "returned"})

\* C28 witness: after a failed pass the download succeeded, os.rename raised,
\* and the call returned the path of the file named after the video id.
C28_Witness ==
    /\ pc = "publish"
    /\ dl.retry_count >= 1
    /\ sub.video_path = {File(VideoId(sub.url), "mp4")}
    /\ sub.video_path \subseteq files

\* C24: for a candidate whose thumbnail reference is "Unknown",
\* extract_info is never called.
C24_UnknownThumbnailNotDownloaded ==
    (sub.url # None /\ sub.thumbnail_url = "Unknown") => dl.fetches = 0

\* C25: two candidates with different URLs never get the same media path,
\* and the thumbnail path is the one named after the candidate's video id.
C25_PathsFromVideoIdOnly ==
    /\ \A p, q \in log.downloaded : p[1] # q[1] => p[2] # q[2]
    /\ \A t \in sub.thumbnail_path : t = File(VideoId(sub.url), "jpg")

\* C26: the selection process_pending_videos has just made holds a candidate
\* for every (language, categories) pair of the configuration under which a
\* pending document is stored, pairs with a value 0 included.
C26_EveryConfigPartitionSelected ==
    ((pc = "loop" /\ idx = 1) \/ (pc = "exit" /\ log.selected = 0)) =>
        \A e \in ConfigEntries :
            (\E d \in DOMAIN docs : /\ docs[d].upload_date = None
                                    /\ docs[d].language = e[1]
                                    /\ docs[d].categories = e[2]) =>
                \E i \in 1..Len(videos) :
                    videos[i].language = e[1] /\ videos[i].categories = e[2]

\* C27: a document whose upload_date is set belongs to a URL for which the
\* downstream API has answered 200.
C27_PublishedWasAccepted ==
    \A u \in URLs : Published(u) => accepted[u] >= 1

\* C27 witness: a candidate has been published.
C27_Witness ==
    \E u \in URLs : Published(u) /\ accepted[u] = 1

\* C30: driver.quit() is called at most once in a run of main, and exactly
\* once when main has ended.
C30_DriverClosedOnce ==
    /\ log.driver_quits <= 1
    /\ pc = "done" => log.driver_quits = 1

\* C29: over a fixed catalog and runs in which every download and submission
\* works, every document stored under a pair of the configuration is
\* eventually published.
C29_PendingEventuallyPublished ==
    \A u \in URLs : (get_document_id(u) \in DOMAIN docs) ~> Published(u)

====
